---- MODULE Spec2Model ----
(***************************************************************************)
(* Model of src/services/api_service.py: fetch_intraday_data (one request  *)
(* to the provider, classified into a payload or the demo-data signal) and *)
(* parse_time_series (payload -> table, with the demo-data fallback).      *)
(*                                                                         *)
(* Representation.  A JSON key is a sequence of words, so that             *)
(* str.startswith is a real prefix test.  A JSON value is a record         *)
(* [kind, keys, section, n]: for an object, keys is the ordered list of    *)
(* its keys and section the value of its time-series key (an ordered list  *)
(* of timestamp-string -> record entries); for a list, n is its length.    *)
(* Prices and volumes are integers in hundredths; NaN is a sentinel.       *)
(***************************************************************************)
EXTENDS Integers, Sequences, FiniteSets, TLC

VARIABLES pc, request, provider, exc, outcome, log, requests, fetchCalls, nin, result

vars == <<pc, request, provider, exc, outcome, log, requests, fetchCalls, nin, result>>

\* ---------------------------------------------------------------- bounds
MaxEntries == 2
MaxKeys == 2

\* ------------------------------------------------------------ JSON keys
KeyErrorMessage == <<"Error", "Message">>
KeyNote == <<"Note">>
KeyTimeZone == <<"Time", "Zone">>
KeyTS5 == <<"Time", "Series", "(5min)">>
KeyTS1 == <<"Time", "Series", "(1min)">>
TimeSeriesPrefix == <<"Time", "Series">>
NoKey == <<>>

Keys == {KeyErrorMessage, KeyNote, KeyTimeZone, KeyTS5, KeyTS1}

startswith(key, prefix) ==
    /\ Len(key) >= Len(prefix)
    /\ SubSeq(key, 1, Len(prefix)) = prefix

\* ------------------------------------------------- strings of the payload
NaN == -1

TsStrings == {"2024-01-02 09:30:00", "2024-01-02 09:35:00", "2024-01-02 09:30", "n/a"}

\* pd.to_datetime of one index label: minutes since midnight of the day
TsParseable(s) == s # "n/a"

to_datetime(s) ==
    CASE s = "2024-01-02 09:30:00" -> 570
      [] s = "2024-01-02 09:35:00" -> 575
      [] s = "2024-01-02 09:30" -> 570
      [] OTHER -> NaN

NumericStrings == {"101.50", "101.5", "102.00", "101.00", "101.75", "103.10", "1200", "800"}

\* pd.to_numeric of one cell (errors='raise'): a numeric string gives its
\* value, the empty string gives NaN, any other string raises
numeric_raises(s) == s \notin NumericStrings /\ s # ""

to_numeric(s) ==
    CASE s = "101.50" -> 10150
      [] s = "101.5" -> 10150
      [] s = "102.00" -> 10200
      [] s = "101.00" -> 10100
      [] s = "101.75" -> 10175
      [] s = "103.10" -> 10310
      [] s = "1200" -> 120000
      [] s = "800" -> 80000
      [] OTHER -> NaN

RecA == <<"101.50", "102.00", "101.00", "101.75", "1200">>
RecB == <<"101.75", "103.10", "101.5", "102.00", "800">>
RecBadVolume == <<"101.50", "102.00", "101.00", "101.75", "abc">>
RecEmptyVolume == <<"101.50", "102.00", "101.00", "101.75", "">>

Records == {RecA, RecB, RecBadVolume, RecEmptyVolume}

Entries == [ts : TsStrings, rec : Records]

\* the sequences over S of length at most n
SeqsUpTo(S, n) == UNION {[1..m -> S] : m \in 0..n}

\* a JSON object has no two equal keys
DistinctBy(s, f(_)) == \A i, j \in 1..Len(s) : i # j => f(s[i]) # f(s[j])

EntryTs(e) == e.ts
SameKey(k) == k

Sections == {s \in SeqsUpTo(Entries, MaxEntries) : DistinctBy(s, EntryTs)}

HasTSKey(keys) == \E i \in 1..Len(keys) : startswith(keys[i], TimeSeriesPrefix)

KeyLists ==
    {ks \in SeqsUpTo(Keys, MaxKeys) :
        /\ DistinctBy(ks, SameKey)
        /\ Cardinality({i \in 1..Len(ks) : startswith(ks[i], TimeSeriesPrefix)}) <= 1}

\* ----------------------------------------------------------- JSON values
None == [kind |-> "None", keys |-> <<>>, section |-> <<>>, n |-> 0]

Objects ==
    {[kind |-> "object", keys |-> ks, section |-> s, n |-> Len(ks)] :
        ks \in {k \in KeyLists : HasTSKey(k)}, s \in Sections}
    \cup
    {[kind |-> "object", keys |-> ks, section |-> <<>>, n |-> Len(ks)] :
        ks \in {k \in KeyLists : ~HasTSKey(k)}}

Scalars ==
    {[kind |-> k, keys |-> <<>>, section |-> <<>>, n |-> m] :
        k \in {"list"}, m \in {0, 1}}
    \cup {[kind |-> "number", keys |-> <<>>, section |-> <<>>, n |-> 1]}
    \cup {[kind |-> "null", keys |-> <<>>, section |-> <<>>, n |-> 0]}

InvalidBody == [kind |-> "invalid", keys |-> <<>>, section |-> <<>>, n |-> 0]

Bodies == Objects \cup Scalars \cup {InvalidBody}

Statuses == {200, 304, 401, 429, 503}

NoBody == None

\* a time series is served with status 200; under any other status the
\* body has no entries
BodiesWithoutEntries == {b \in Bodies : b.section = <<>>}

ProviderBehaviours ==
    {[kind |-> "response", status |-> 200, body |-> b] : b \in Bodies}
    \cup {[kind |-> "response", status |-> st, body |-> b] :
            st \in Statuses \ {200}, b \in BodiesWithoutEntries}
    \cup {[kind |-> k, status |-> 0, body |-> NoBody] :
            k \in {"connection_error", "timeout", "connect_timeout"}}

NoneArg == "None"

Requests ==
    {[symbol |-> "AAPL", interval |-> "5min", api_key |-> "config.ALPHA_VANTAGE_API_KEY"],
     [symbol |-> "IBM", interval |-> "1min", api_key |-> "K1"]}

NoRequest == [symbol |-> NoneArg, interval |-> NoneArg, api_key |-> NoneArg]
NoProvider == [kind |-> "none", status |-> 0, body |-> NoBody]
NoOutcome == [payload |-> None, is_demo |-> FALSE]
NoInput == [response |-> None, symbol |-> NoneArg, interval |-> NoneArg]
NoResult == [kind |-> "none", src |-> "none", rows |-> <<>>, gen |-> <<>>,
             err |-> "none", reads |-> {}]

\* ---------------------------------------------------- fetch_intraday_data
\* Response.raise_for_status(): HTTPError for a 4xx or 5xx status only
raise_for_status(status) == status >= 400 /\ status < 600

\* Response.json(): the parsed body; JSON null parses to None
json(body) == IF body.kind = "null" THEN None ELSE body

\* Python's `key in data`
in_raises(data) == data.kind \in {"None", "number"}

contains(key, data) ==
    /\ data.kind = "object"
    /\ \E i \in 1..Len(data.keys) : data.keys[i] = key

\* lines 33-43 without the test for "Note"
try_body_no_note(resp) ==
    IF raise_for_status(resp.status) THEN "HTTPError"
    ELSE IF resp.body.kind = "invalid" THEN "JSONDecodeError"
    ELSE IF in_raises(json(resp.body)) THEN "TypeError"
    ELSE IF contains(KeyErrorMessage, json(resp.body)) THEN "ValueError"
    ELSE "none"

\* lines 33-43: the exception raised inside the try block for a received
\* response, or "none" when line 43 is reached
try_body(resp) ==
    IF raise_for_status(resp.status) THEN "HTTPError"
    ELSE IF resp.body.kind = "invalid" THEN "JSONDecodeError"
    ELSE IF in_raises(json(resp.body)) THEN "TypeError"
    ELSE IF contains(KeyErrorMessage, json(resp.body)) THEN "ValueError"
    ELSE IF contains(KeyNote, json(resp.body)) THEN "ValueError"
    ELSE "none"

\* requests.get raising instead of returning a response
get_raises(beh) ==
    CASE beh.kind = "connection_error" -> "ConnectionError"
      [] beh.kind = "timeout" -> "Timeout"
      [] beh.kind = "connect_timeout" -> "ConnectTimeout"
      [] OTHER -> "none"

\* lines 45-59: the first except clause that matches the exception
except_clause_no_catch_all(e) ==
    CASE e = "HTTPError" -> "HTTPError"
      [] e \in {"ConnectionError", "ConnectTimeout"} -> "ConnectionError"
      [] e = "Timeout" -> "Timeout"
      [] OTHER -> "uncaught"

except_clause(e) ==
    CASE e = "HTTPError" -> "HTTPError"
      [] e \in {"ConnectionError", "ConnectTimeout"} -> "ConnectionError"
      [] e = "Timeout" -> "Timeout"
      [] OTHER -> "Exception"

\* lines 46-60: the diagnostic printed by the handler
message(clause, status) ==
    CASE clause = "HTTPError" /\ status = 401 -> "Invalid API key"
      [] clause = "HTTPError" /\ status = 429 -> "API rate limit exceeded"
      [] clause = "HTTPError" /\ status \notin {401, 429} -> "HTTP error occurred"
      [] clause = "ConnectionError" -> "Network connection error"
      [] clause = "Timeout" -> "Request timed out"
      [] OTHER -> "Error occurred"

\* line 32: the single requests.get of a call
FetchRequest ==
    /\ pc = "idle"
    /\ \E req \in Requests, beh \in ProviderBehaviours :
        /\ request' = req
        /\ provider' = beh
        /\ exc' = get_raises(beh)
        /\ pc' = IF get_raises(beh) = "none" THEN "got" ELSE "except"
    /\ requests' = requests + 1
    /\ fetchCalls' = fetchCalls + 1
    /\ UNCHANGED <<outcome, log, nin, result>>

\* lines 33-43
FetchProcess ==
    /\ pc = "got"
    /\ exc' = try_body(provider)
    /\ IF try_body(provider) = "none"
       THEN /\ outcome' = [payload |-> json(provider.body), is_demo |-> FALSE]
            /\ pc' = "returned"
       ELSE /\ outcome' = outcome
            /\ pc' = "except"
    /\ UNCHANGED <<request, provider, log, requests, fetchCalls, nin, result>>

\* a handler that tries the request once more
FetchExceptRetry ==
    /\ pc = "except"
    /\ requests' = requests + 1
    /\ pc' = IF get_raises(provider) = "none" THEN "got" ELSE "returned"
    /\ outcome' = [payload |-> None, is_demo |-> TRUE]
    /\ log' = message(except_clause(exc), provider.status)
    /\ UNCHANGED <<request, provider, exc, fetchCalls, nin, result>>

\* lines 45-61
FetchExcept ==
    /\ pc = "except"
    /\ IF except_clause(exc) = "uncaught"
       THEN /\ pc' = "raised"
            /\ UNCHANGED <<outcome, log>>
       ELSE /\ pc' = "returned"
            /\ outcome' = [payload |-> None, is_demo |-> TRUE]
            /\ log' = message(except_clause(exc), provider.status)
    /\ UNCHANGED <<request, provider, exc, requests, fetchCalls, nin, result>>

\* ------------------------------------------------------ parse_time_series
\* Python truthiness of the response argument (line 77)
truthy(response) ==
    CASE response.kind = "None" -> FALSE
      [] response.kind = "object" -> Len(response.keys) > 0
      [] OTHER -> response.n > 0

\* `symbol or interval` in place of `symbol and interval`
supplied_or(symbol, interval) == symbol # NoneArg \/ interval # NoneArg

\* lines 79 and 92: `symbol and interval`
supplied(symbol, interval) == symbol # NoneArg /\ interval # NoneArg

\* demo_data.generate_demo_stock_data(symbol, interval): a table that
\* depends on nothing but its two arguments
generate_demo_stock_data(symbol, interval) ==
    [kind |-> "table", src |-> "demo",
     rows |-> <<[timestamp |-> 0, open |-> 100, high |-> 100, low |-> 100,
                 close |-> 100, volume |-> 100]>>,
     gen |-> <<symbol, interval>>, err |-> "none", reads |-> {}]

\* pd.DataFrame()
EmptyDataFrame ==
    [kind |-> "table", src |-> "empty", rows |-> <<>>, gen |-> <<>>,
     err |-> "none", reads |-> {}]

Raised(e, rd) ==
    [kind |-> "raise", src |-> "none", rows |-> <<>>, gen |-> <<>>,
     err |-> e, reads |-> rd]

\* lines 79-81 and 92-94
fallback(symbol, interval, rd) ==
    IF supplied(symbol, interval)
    THEN [generate_demo_stock_data(symbol, interval) EXCEPT !.reads = rd]
    ELSE [EmptyDataFrame EXCEPT !.reads = rd]

\* lines 84-88: the first key that starts with "Time Series"
find_time_series_key(keys) ==
    IF \E i \in 1..Len(keys) : startswith(keys[i], TimeSeriesPrefix)
    THEN keys[CHOOSE i \in 1..Len(keys) :
                /\ startswith(keys[i], TimeSeriesPrefix)
                /\ \A j \in 1..(i - 1) : ~startswith(keys[j], TimeSeriesPrefix)]
    ELSE NoKey

\* line 99: the number of columns of DataFrame.from_dict(.., orient='index')
ncols(section) ==
    IF Len(section) = 0 THEN 0
    ELSE CHOOSE m \in 0..5 :
            /\ \E i \in 1..Len(section) : Len(section[i].rec) = m
            /\ \A i \in 1..Len(section) : Len(section[i].rec) <= m

\* lines 105-113: one row per entry, index and cells converted
frame(section) ==
    [i \in 1..Len(section) |->
        [timestamp |-> to_datetime(section[i].ts),
         open |-> to_numeric(section[i].rec[1]),
         high |-> to_numeric(section[i].rec[2]),
         low |-> to_numeric(section[i].rec[3]),
         close |-> to_numeric(section[i].rec[4]),
         volume |-> to_numeric(section[i].rec[5])]]

\* line 116: DataFrame.sort_index(); rows with equal index in any order
sort_index(rows) ==
    IF Len(rows) = 0 THEN {rows}
    ELSE {[i \in 1..Len(rows) |-> rows[p[i]]] :
            p \in {q \in Permutations(1..Len(rows)) :
                    \A i, j \in 1..Len(rows) :
                        i < j => rows[q[i]].timestamp <= rows[q[j]].timestamp}}

\* lines 109-113 with errors='coerce': nothing raises
cells_raise_coerce(section) == FALSE

\* lines 109-113: some cell makes pd.to_numeric raise
cells_raise(section) ==
    \E i \in 1..Len(section), c \in 1..5 : numeric_raises(section[i].rec[c])

\* line 102 guarded by a test for an empty frame
columns_raise_guarded(section) == Len(section) > 0 /\ ncols(section) # 5

\* line 102: assigning five column names raises on another column count
columns_raise(section) == ncols(section) # 5

\* lines 96-118
build_table(section) ==
    IF columns_raise(section)
    THEN {Raised("ValueError: Length mismatch", {"truth", "keys", "section"})}
    ELSE IF \E i \in 1..Len(section) : ~TsParseable(section[i].ts)
    THEN {Raised("DateParseError", {"truth", "keys", "section"})}
    ELSE IF cells_raise(section)
    THEN {Raised("ValueError: Unable to parse string", {"truth", "keys", "section"})}
    ELSE {[kind |-> "table", src |-> "payload", rows |-> t, gen |-> <<>>,
           err |-> "none", reads |-> {"truth", "keys", "section"}] :
            t \in sort_index(frame(section))}

\* lines 77-118: the set of results the call can end with
parse_time_series(response, symbol, interval) ==
    IF ~truthy(response)
    THEN {fallback(symbol, interval, {"truth"})}
    ELSE IF response.kind # "object"
    THEN {Raised("AttributeError", {"truth"})}
    ELSE IF find_time_series_key(response.keys) = NoKey
    THEN {fallback(symbol, interval, {"truth", "keys"})}
    ELSE build_table(response.section)

\* the values a caller can pass as response
Responses == {json(b) : b \in Bodies \ {InvalidBody}}

Args(req) ==
    {[symbol |-> req.symbol, interval |-> req.interval],
     [symbol |-> NoneArg, interval |-> NoneArg],
     [symbol |-> req.symbol, interval |-> NoneArg]}

\* parse_time_series(*fetch_intraday_data(..)[0], ..)
Normalize ==
    /\ pc = "returned"
    /\ \E a \in Args(request) :
        /\ nin' = [response |-> outcome.payload, symbol |-> a.symbol,
                   interval |-> a.interval]
        /\ \E r \in parse_time_series(outcome.payload, a.symbol, a.interval) :
            result' = r
    /\ pc' = "done"
    /\ UNCHANGED <<request, provider, exc, outcome, log, requests, fetchCalls>>

\* parse_time_series called on its own
NormalizeDirect ==
    /\ pc = "idle"
    /\ \E resp \in Responses, req \in Requests : \E a \in Args(req) :
        /\ nin' = [response |-> resp, symbol |-> a.symbol, interval |-> a.interval]
        /\ \E r \in parse_time_series(resp, a.symbol, a.interval) :
            result' = r
    /\ pc' = "done"
    /\ UNCHANGED <<request, provider, exc, outcome, log, requests, fetchCalls>>

Init ==
    /\ pc = "idle"
    /\ request = NoRequest
    /\ provider = NoProvider
    /\ exc = "none"
    /\ outcome = NoOutcome
    /\ log = "none"
    /\ requests = 0
    /\ fetchCalls = 0
    /\ nin = NoInput
    /\ result = NoResult

\* the next call starts from scratch: no state is kept between calls
NextCall ==
    /\ pc \in {"done", "raised"}
    /\ pc' = "idle"
    /\ request' = NoRequest
    /\ provider' = NoProvider
    /\ exc' = "none"
    /\ outcome' = NoOutcome
    /\ log' = "none"
    /\ requests' = 0
    /\ fetchCalls' = 0
    /\ nin' = NoInput
    /\ result' = NoResult

Next ==
    \/ FetchRequest
    \/ FetchProcess
    \/ FetchExcept
    \/ Normalize
    \/ NormalizeDirect
    \/ NextCall

Spec == Init /\ [][Next]_vars

\* ------------------------------------------------------------ properties
IsPayload(o) == o.payload # None /\ o.is_demo = FALSE
IsFallback(o) == o.payload = None /\ o.is_demo = TRUE

\* fetch_intraday_data has returned in this call
FetchReturned == pc = "returned" \/ (pc = "done" /\ fetchCalls = 1)

\* parse_time_series has finished, on its own or after a fetch
NormalizeDone == pc = "done"

HasSection(response) ==
    response.kind = "object" /\ HasTSKey(response.keys)

BodyHasMarker ==
    /\ provider.kind = "response"
    /\ provider.body.kind = "object"
    /\ \E i \in 1..Len(provider.body.keys) :
         provider.body.keys[i] \in {KeyErrorMessage, KeyNote}

RequestFailed == provider.kind \in {"connection_error", "timeout", "connect_timeout"}

\* C1: whatever the provider does, fetch_intraday_data returns and never
\* raises, and what it returns is either a payload with the flag False or
\* None with the flag True.
C1_FetchNeverRaises ==
    /\ pc # "raised"
    /\ FetchReturned => (IsPayload(outcome) \/ IsFallback(outcome))
    /\ FetchReturned => ~(IsPayload(outcome) /\ IsFallback(outcome))

C1_Witness ==
    /\ pc = "returned"
    /\ provider.kind = "response"
    /\ provider.body.kind = "null"
    /\ exc = "TypeError"
    /\ IsFallback(outcome)

C3_FallbackResult ==
    (/\ NormalizeDone
     /\ \/ ~truthy(nin.response)
        \/ nin.response.kind = "object" /\ ~HasTSKey(nin.response.keys))
    => /\ result.kind = "table"
       /\ "section" \notin result.reads
       /\ (nin.symbol # NoneArg /\ nin.interval # NoneArg) =>
            /\ result.src = "demo"
            /\ result.gen = <<nin.symbol, nin.interval>>
            /\ result.rows = generate_demo_stock_data(nin.symbol, nin.interval).rows
       /\ (nin.symbol = NoneArg \/ nin.interval = NoneArg) =>
            /\ result.src = "empty"
            /\ result.rows = <<>>

C3_Witness ==
    /\ NormalizeDone
    /\ nin.response.kind = "object"
    /\ nin.response.keys = <<KeyTimeZone>>
    /\ nin.symbol = "AAPL"
    /\ nin.interval = NoneArg
    /\ result.src = "empty"

WellFormed(response) ==
    /\ HasSection(response)
    /\ \A i \in 1..Len(response.section) :
        /\ TsParseable(response.section[i].ts)
        /\ \A c \in 1..5 : response.section[i].rec[c] \in NumericStrings
    /\ \A i, j \in 1..Len(response.section) :
        i # j => to_datetime(response.section[i].ts) # to_datetime(response.section[j].ts)

RowOf(e) ==
    [timestamp |-> to_datetime(e.ts),
     open |-> to_numeric(e.rec[1]), high |-> to_numeric(e.rec[2]),
     low |-> to_numeric(e.rec[3]), close |-> to_numeric(e.rec[4]),
     volume |-> to_numeric(e.rec[5])]

TableMatches(section, rows) ==
    /\ Len(rows) = Len(section)
    /\ \A i, j \in 1..Len(rows) : i < j => rows[i].timestamp < rows[j].timestamp
    /\ \A i \in 1..Len(section) : \E j \in 1..Len(rows) : rows[j] = RowOf(section[i])

\* C4 as stated: a well-formed payload with N entries of distinct
\* timestamps gives a table of exactly N rows, strictly ascending by
\* timestamp, each row holding the parsed values of its entry.
C4_Original ==
    (NormalizeDone /\ WellFormed(nin.response))
    => /\ result.kind = "table"
       /\ result.src = "payload"
       /\ TableMatches(nin.response.section, result.rows)

\* The same for N >= 1, the case the code handles.
C4_NonEmptySection ==
    (NormalizeDone /\ WellFormed(nin.response) /\ Len(nin.response.section) > 0)
    => /\ result.kind = "table"
       /\ result.src = "payload"
       /\ TableMatches(nin.response.section, result.rows)

HasVolume(response, S) ==
    /\ HasSection(response)
    /\ \E i \in 1..Len(response.section) : response.section[i].rec[5] \in S

C6_Original ==
    (NormalizeDone /\ HasSection(nin.response) /\ Len(nin.response.section) = 0)
    => /\ result.kind = "table"
       /\ result.rows = <<>>
       /\ result.src # "demo"

RowFailsParsing(response) ==
    /\ HasSection(response)
    /\ \E i \in 1..Len(response.section) :
        \/ ~TsParseable(response.section[i].ts)
        \/ \E c \in 1..5 : numeric_raises(response.section[i].rec[c])

\* C7 as stated: in parse_time_series(fetch_intraday_data(..)) every failed
\* fetch gives a table (demo, or empty without symbol and interval), and the
\* composition fails only for a payload whose section has a row that fails
\* timestamp or numeric parsing.
C7_Original ==
    (pc = "done" /\ fetchCalls = 1)
    => /\ IsFallback(outcome) =>
            /\ result.kind = "table"
            /\ result.src = (IF supplied(nin.symbol, nin.interval) THEN "demo" ELSE "empty")
       /\ result.kind = "raise" =>
            /\ IsPayload(outcome)
            /\ RowFailsParsing(outcome.payload)

\* C8 as stated: parse_time_series returns a table for every input and
\* never raises.
C8_Original == NormalizeDone => result.kind = "table"

\* C9: a call of fetch_intraday_data issues exactly one request, whatever
\* fails; parse_time_series issues none.
C9_OneRequest ==
    /\ pc \in {"got", "except", "returned", "raised"} => requests = 1
    /\ pc = "done" => requests = fetchCalls
    /\ pc = "idle" => requests = 0
    /\ fetchCalls <= 1

C9_Witness ==
    /\ pc = "done"
    /\ fetchCalls = 1
    /\ requests = 1
    /\ exc = "Timeout"
    /\ log = "Request timed out"
    /\ IsFallback(outcome)

\* C10 as stated: with symbol and interval supplied, the table comes from
\* the demo generator exactly when the flag of fetch_intraday_data is True.
C10_Original ==
    (pc = "done" /\ fetchCalls = 1 /\ supplied(nin.symbol, nin.interval))
    => (result.kind = "table" /\ (result.src = "demo" <=> outcome.is_demo))
====
